---- MODULE Spec2Model ----
(***************************************************************************)
(* Two one-shot migration programs of NetSocialOSS/CLI-Tools:              *)
(*                                                                         *)
(*   mongo/mongotomysql.go           transferData: five Mongo collections  *)
(*                                   copied one after another into         *)
(*                                   PostgreSQL tables (sequential,        *)
(*                                   check-then-insert per record).        *)
(*   cli-tools/mongo/botstructconv.go  main: one goroutine per bot         *)
(*                                   document, a buffered error channel, a *)
(*                                   WaitGroup and a plain shared counter. *)
(*                                                                         *)
(* The relational part is first, the bot conversion second.                *)
(***************************************************************************)
EXTENDS Integers, Sequences, FiniteSets, Bags, TLC

(***************************************************************************)
(* Bounds of the relational model.                                         *)
(***************************************************************************)
\* Records held by the five source collections together.
MaxTotal == 2
\* The same, when two runs of the program overlap.
MaxConcTotal == 1
\* Store failures that are not decided by the data (a lost connection during
\* startup, Find, cursor.Next, the SELECT or the INSERT) within one behaviour.
MaxFaults == 1

\* Natural-key values (title, slug, email, _id): every record may have its own.
Keys == 1..MaxTotal

(***************************************************************************)
(* transferData's table of collections, in its order.                      *)
(***************************************************************************)
collections == <<"partners", "blogposts", "users", "coterie", "posts">>

NumCollections == Len(collections)

Partners == 1
BlogPosts == 2
Users == 3
Coterie == 4
Posts == 5

Procs == {1, 2}

VARIABLES
    relSrc,      \* relSrc[c]: the documents of source collection c, in cursor order
    table,       \* table[c]: the destination table, stored key value -> number of rows
    oidText,     \* how the SQL driver renders a primitive.ObjectID parameter
    concurrent,  \* whether the two runs of the program may overlap
    pcT,         \* pcT[p]: where run p of mongotomysql's main is
    col,         \* col[p]: index of the collection transferData is at
    pos,         \* pos[p]: documents the open cursor has yielded
    cursorOpen,  \* cursorOpen[p]: the cursor of the current transfer is open
    iterErr,     \* iterErr[p]: cursor.Next ended the loop on an iteration error
    retErr,      \* retErr[p]: the transfer function is returning a non-nil error
    outcomeR,    \* outcomeR[p][c][i]: what became of document i of collection c
    issued,      \* issued[p][c]: positions for which an INSERT was sent
    logT,        \* logT[p]: transferData's log, <<collection, failed>> per transfer
    faults       \* store failures injected so far

VARIABLES
    botSrc,        \* the documents of the bots collection, in cursor order
    destBots,      \* the transformedbots collection: a bag of Bots documents
    runNo,         \* which run of the conversion this is
    firstDest,     \* during the run that follows a first run that got to Done:
                   \* <<what that left in transformedbots and how many errors
                   \* it printed>>
    pcB,           \* where main of botstructconv.go is
    ctxExpired,    \* the 10 s deadline of ctx has passed
    cursorOpenB,   \* cur is open
    curPos,        \* documents cur has yielded
    curErr,        \* cur.Err() is non-nil
    errCh,         \* errors buffered in errCh (its values are only printed)
    errChClosed,   \* close(errCh) has run
    wg,            \* the WaitGroup counter
    processedDocs, \* the shared counter
    wpc,           \* wpc[i]: where the goroutine of document i is
    wdoc,          \* wdoc[i]: its transformedDoc, once transformDocument returned one
    wtmp,          \* wtmp[i]: the value of processedDocs it loaded
    pcClose,       \* the goroutine that waits on wg and closes errCh
    pcLog,         \* the goroutine that ranges over errCh
    logged,        \* how many errors it has printed
    outcomeB,      \* outcomeB[i]: what became of document i
    summary        \* the count printed by "Conversion done", or -1

botVars == <<botSrc, destBots, runNo, firstDest, pcB, ctxExpired, cursorOpenB,
             curPos, curErr, errCh, errChClosed, wg, processedDocs, wpc, wdoc,
             wtmp, pcClose, pcLog, logged, outcomeB, summary>>

relVars == <<relSrc, table, oidText, concurrent, pcT, col, pos, cursorOpen,
             iterErr, retErr, outcomeR, issued, logT, faults>>

VARIABLES
    stored,      \* a document of the bots collection as the server stores it
    fnOut        \* <<>>, or <<what cur.Decode and transformDocument made of it>>

fnVars == <<stored, fnOut>>

vars == <<relVars, botVars, fnVars>>

(***************************************************************************)
(* Source documents.  A document either fails cursor.Decode into the       *)
(* transfer's struct or decodes to a value whose natural key is `key`; a   *)
(* blog post also carries a date string that time.Parse accepts or not.    *)
(***************************************************************************)
BadRec == [dec |-> FALSE, key |-> 0, dateOK |-> TRUE]

GoodRec(k) == [dec |-> TRUE, key |-> k, dateOK |-> TRUE]

BadDateRec(k) == [dec |-> TRUE, key |-> k, dateOK |-> FALSE]

Kinds(c) ==
    {BadRec} \cup {GoodRec(k) : k \in Keys}
        \cup (IF c = BlogPosts THEN {BadDateRec(k) : k \in Keys} ELSE {})

\* coterie and posts are keyed by Mongo's _id, which is unique in a collection.
KeyedById(c) == c \in {Coterie, Posts}

DistinctIds(s) ==
    \A i, j \in 1..Len(s) : (i < j /\ s[i].dec /\ s[j].dec) => s[i].key # s[j].key

\* Keys are interchangeable, so a collection's documents name them in order of
\* first appearance: 1 first, then 2, ...
KeysInOrder(s) ==
    \A i \in 1..Len(s) :
        s[i].dec => \/ s[i].key = 1
                    \/ \E j \in 1..(i - 1) : s[j].dec /\ s[j].key >= s[i].key - 1

SeqsUpTo(S, n) == UNION {[1..m -> S] : m \in 0..n}

ValidSrc(c, n) ==
    {s \in SeqsUpTo(Kinds(c), n) : KeysInOrder(s) /\ (KeyedById(c) => DistinctIds(s))}

RECURSIVE SumLen(_)
SumLen(ss) == IF ss = <<>> THEN 0 ELSE Len(Head(ss)) + SumLen(Tail(ss))

\* Every assignment of documents to the first n collections, MaxTotal at most.
RECURSIVE Sources(_)
Sources(n) ==
    IF n = 0 THEN {<<>>}
    ELSE UNION {{Append(ss, s) : s \in ValidSrc(n, MaxTotal - SumLen(ss))} :
                    ss \in Sources(n - 1)}

(***************************************************************************)
(* Key values as the destination stores and compares them.                 *)
(***************************************************************************)
Str(k) == <<"text", k>>

\* primitive.ObjectID.Hex()
Hex(k) == <<"hex", k>>

\* primitive.ObjectID.String(), `ObjectID("...")`
Stringer(k) == <<"ObjectID()", k>>

\* The value the INSERT stores in the key column.
StoredKey(c, r) == IF c = Coterie THEN Hex(r.key) ELSE Str(r.key)

\* transferCoteries hands the SELECT coterie.ID itself, an ObjectID and not
\* its Hex(); what text the driver sends for it is the driver's choice.
OidRenderings == {"hex", "stringer", "unencodable"}

QueryParam(c, r, rendering) ==
    IF c = Coterie
    THEN (IF rendering = "hex" THEN Hex(r.key) ELSE Stringer(r.key))
    ELSE Str(r.key)

StoredVals(c) == {StoredKey(c, GoodRec(k)) : k \in Keys}

\* SELECT id FROM t WHERE key = $1 followed by Scan: nil when a row matches,
\* pgx.ErrNoRows when none does.
RowExists(tbl, param) == \E v \in DOMAIN tbl : v = param /\ tbl[v] > 0

\* A table made without the constraint on its key column.
UniqueViolation_none(tbl, v) == FALSE

\* UNIQUE / PRIMARY KEY on the key column of every table createTables makes.
UniqueViolation(tbl, v) == tbl[v] > 0

(***************************************************************************)
(* Initial states: the tables as createTables leaves them on a fresh       *)
(* database, no run started.                                               *)
(***************************************************************************)
InitRelCommon ==
    /\ relSrc \in Sources(NumCollections)
    /\ table = [c \in 1..NumCollections |-> [v \in StoredVals(c) |-> 0]]
    /\ oidText = "unknown"
    /\ pcT = [p \in Procs |-> "idle"]
    /\ col = [p \in Procs |-> 0]
    /\ pos = [p \in Procs |-> 0]
    /\ cursorOpen = [p \in Procs |-> FALSE]
    /\ iterErr = [p \in Procs |-> FALSE]
    /\ retErr = [p \in Procs |-> FALSE]
    /\ outcomeR = [p \in Procs |-> [c \in 1..NumCollections |->
                      [i \in 1..Len(relSrc[c]) |-> "none"]]]
    /\ issued = [p \in Procs |-> [c \in 1..NumCollections |-> {}]]
    /\ logT = [p \in Procs |-> <<>>]
    /\ faults = 0

\* The program is run, and once it has ended it is run again.
InitRelSeq == InitRelCommon /\ concurrent = FALSE

\* Two runs of the program against the same source and destination overlap.
InitRelConc == InitRelCommon /\ SumLen(relSrc) <= MaxConcTotal /\ concurrent = TRUE

(***************************************************************************)
(* main of mongotomysql.go up to the call of transferData: loading .env,   *)
(* connecting to both stores and createTables either all succeed or the    *)
(* process ends in log.Fatalf.                                             *)
(***************************************************************************)
Fault == faults < MaxFaults /\ faults' = faults + 1

NoFault == faults' = faults

Ended(p) == pcT[p] \in {"finished", "fatal"}

RelStart(p) ==
    /\ pcT[p] = "idle"
    /\ p = 1 \/ (IF concurrent THEN pcT[1] # "idle" ELSE Ended(1))
    /\ \/ Fault /\ pcT' = [pcT EXCEPT ![p] = "fatal"] /\ col' = col
       \/ NoFault /\ pcT' = [pcT EXCEPT ![p] = "find"] /\ col' = [col EXCEPT ![p] = 1]
    /\ UNCHANGED <<relSrc, table, oidText, concurrent, pos, cursorOpen, iterErr,
                   retErr, outcomeR, issued, logT>>
    /\ UNCHANGED <<botVars, fnVars>>

(***************************************************************************)
(* The five transfer functions share one shape; c = col[p] selects the     *)
(* collection and the differences are the date parse of blog posts and the *)
(* key parameter of coteries.                                              *)
(***************************************************************************)
\* cursor, err := collection.Find(ctx, bson.D{}); defer cursor.Close(ctx)
CollectionFind(p) ==
    /\ pcT[p] = "find"
    /\ \/ /\ Fault
          /\ pcT' = [pcT EXCEPT ![p] = "return"]
          /\ retErr' = [retErr EXCEPT ![p] = TRUE]
          /\ UNCHANGED <<cursorOpen, pos, iterErr>>
       \/ /\ NoFault
          /\ pcT' = [pcT EXCEPT ![p] = "next"]
          /\ cursorOpen' = [cursorOpen EXCEPT ![p] = TRUE]
          /\ pos' = [pos EXCEPT ![p] = 0]
          /\ iterErr' = [iterErr EXCEPT ![p] = FALSE]
          /\ retErr' = [retErr EXCEPT ![p] = FALSE]
    /\ UNCHANGED <<relSrc, table, oidText, concurrent, col, outcomeR, issued, logT>>
    /\ UNCHANGED <<botVars, fnVars>>

SetOutcome(p, o) ==
    outcomeR' = [outcomeR EXCEPT ![p][col[p]][pos'[p]] = o]

ReturnErr(p) ==
    /\ pcT' = [pcT EXCEPT ![p] = "return"]
    /\ retErr' = [retErr EXCEPT ![p] = TRUE]

\* for cursor.Next(ctx) { cursor.Decode(&x) ... [time.Parse] ... }; return nil
CursorNext(p) ==
    /\ pcT[p] = "next"
    /\ LET s == relSrc[col[p]] IN
       \/ /\ pos[p] < Len(s)
          /\ pos' = [pos EXCEPT ![p] = @ + 1]
          /\ LET r == s[pos[p] + 1] IN
             IF ~r.dec
             THEN SetOutcome(p, "decodeErr") /\ ReturnErr(p)
             ELSE IF col[p] = BlogPosts /\ ~r.dateOK
             THEN SetOutcome(p, "parseErr") /\ ReturnErr(p)
             ELSE /\ pcT' = [pcT EXCEPT ![p] = "check"]
                  /\ UNCHANGED <<outcomeR, retErr>>
          /\ UNCHANGED iterErr
          /\ NoFault
       \/ \* the cursor is exhausted: the loop ends, return nil
          /\ pos[p] = Len(s)
          /\ pcT' = [pcT EXCEPT ![p] = "return"]
          /\ UNCHANGED <<pos, outcomeR, retErr, iterErr>>
          /\ NoFault
       \/ \* the cursor fails mid-stream: Next is false, cursor.Err() is
          \* never read, return nil
          /\ pos[p] < Len(s)
          /\ Fault
          /\ iterErr' = [iterErr EXCEPT ![p] = TRUE]
          /\ pcT' = [pcT EXCEPT ![p] = "return"]
          /\ UNCHANGED <<pos, outcomeR, retErr>>
    /\ UNCHANGED <<relSrc, table, oidText, concurrent, col, cursorOpen, issued, logT>>
    /\ UNCHANGED <<botVars, fnVars>>

CurRec(p) == relSrc[col[p]][pos[p]]

\* err = pgPool.QueryRow(ctx, "SELECT id ... WHERE key = $1", key).Scan(&existingID)
ExistenceCheck(p) ==
    /\ pcT[p] = "check"
    /\ pos' = pos
    /\ \E rendering \in (IF col[p] # Coterie THEN {oidText}
                         ELSE IF oidText = "unknown" THEN OidRenderings
                         ELSE {oidText}) :
          /\ oidText' = rendering
          /\ \/ \* the parameter cannot be encoded: an error other than
                \* pgx.ErrNoRows, return err
                /\ col[p] = Coterie /\ rendering = "unencodable"
                /\ NoFault
                /\ SetOutcome(p, "checkErr") /\ ReturnErr(p)
             \/ \* the query fails: return err
                /\ Fault
                /\ SetOutcome(p, "checkErr") /\ ReturnErr(p)
             \/ /\ ~(col[p] = Coterie /\ rendering = "unencodable")
                /\ NoFault
                /\ IF RowExists(table[col[p]], QueryParam(col[p], CurRec(p), rendering))
                   THEN \* err == nil: continue
                        /\ SetOutcome(p, "skipped")
                        /\ pcT' = [pcT EXCEPT ![p] = "next"]
                        /\ UNCHANGED retErr
                   ELSE \* pgx.ErrNoRows: go on to the INSERT
                        /\ pcT' = [pcT EXCEPT ![p] = "insert"]
                        /\ UNCHANGED <<outcomeR, retErr>>
    /\ UNCHANGED <<relSrc, table, concurrent, col, cursorOpen, iterErr, issued, logT>>
    /\ UNCHANGED <<botVars, fnVars>>

\* _, err = pgPool.Exec(ctx, "INSERT INTO t (...) VALUES (...)", ...)
InsertRow(p) ==
    /\ pcT[p] = "insert"
    /\ pos' = pos
    /\ issued' = [issued EXCEPT ![p][col[p]] = @ \cup {pos[p]}]
    /\ LET c == col[p]
           v == StoredKey(c, CurRec(p))
       IN \/ \* rejected by the key constraint: return err
             /\ UniqueViolation(table[c], v)
             /\ NoFault
             /\ SetOutcome(p, "writeErr") /\ ReturnErr(p)
             /\ UNCHANGED table
          \/ \* the statement fails for another reason: return err
             /\ ~UniqueViolation(table[c], v)
             /\ Fault
             /\ SetOutcome(p, "writeErr") /\ ReturnErr(p)
             /\ UNCHANGED table
          \/ /\ ~UniqueViolation(table[c], v)
             /\ NoFault
             /\ table' = [table EXCEPT ![c][v] = @ + 1]
             /\ SetOutcome(p, "inserted")
             /\ pcT' = [pcT EXCEPT ![p] = "next"]
             /\ UNCHANGED retErr
    /\ UNCHANGED <<relSrc, oidText, concurrent, col, cursorOpen, iterErr, logT>>
    /\ UNCHANGED <<botVars, fnVars>>

\* A transferData that gives up at the first transfer that fails.
TransferReturn_stopOnError(p) ==
    /\ pcT[p] = "return"
    /\ cursorOpen' = [cursorOpen EXCEPT ![p] = FALSE]
    /\ logT' = [logT EXCEPT ![p] = Append(@, <<col[p], retErr[p]>>)]
    /\ IF col[p] = NumCollections \/ retErr[p]
       THEN pcT' = [pcT EXCEPT ![p] = "finished"] /\ col' = col
       ELSE pcT' = [pcT EXCEPT ![p] = "find"] /\ col' = [col EXCEPT ![p] = @ + 1]
    /\ UNCHANGED <<relSrc, table, oidText, concurrent, pos, iterErr, retErr,
                   outcomeR, issued, faults>>
    /\ UNCHANGED <<botVars, fnVars>>

\* The transfer function returns (its deferred cursor.Close runs) and
\* transferData logs the result and goes on to the next collection; after
\* the last it returns nil and main returns.
TransferReturn(p) ==
    /\ pcT[p] = "return"
    /\ cursorOpen' = [cursorOpen EXCEPT ![p] = FALSE]
    /\ logT' = [logT EXCEPT ![p] = Append(@, <<col[p], retErr[p]>>)]
    /\ IF col[p] = NumCollections
       THEN pcT' = [pcT EXCEPT ![p] = "finished"] /\ col' = col
       ELSE pcT' = [pcT EXCEPT ![p] = "find"] /\ col' = [col EXCEPT ![p] = @ + 1]
    /\ UNCHANGED <<relSrc, table, oidText, concurrent, pos, iterErr, retErr,
                   outcomeR, issued, faults>>
    /\ UNCHANGED <<botVars, fnVars>>

(***************************************************************************)
(*                       botstructconv.go                                  *)
(***************************************************************************)
\* Documents of the bots collection within one behaviour.
MaxDocs == 3
\* Runs of the conversion against the same source and destination.
MaxRuns == 2
\* Documents that follow the run of undecodable ones (SpecBotFlood).
MaxFloodTail == 3
\* errCh := make(chan error, 100)
ErrChCap == 100

(***************************************************************************)
(* The votes field is an interface{}: its dynamic type and value.  A list  *)
(* carries its elements in elems, a scalar its number in n.                *)
(***************************************************************************)
Dyn(t, n) == [t |-> t, n |-> n, elems |-> <<>>]

DynList(t, es) == [t |-> t, n |-> 0, elems |-> es]

NoVotes == Dyn("nil", 0)

\* OriginalBot{}, the zero value.
ZeroOriginalBot ==
    [OwnerID |-> "", OwnerName |-> "", BotID |-> "", AltBotID |-> "",
     Username |-> "", Discrim |-> "", Avatar |-> "", Prefix |-> "",
     Invite |-> "", LongDesc |-> "", ShortDesc |-> "", Tags |-> <<>>,
     Uptimerate |-> 0, Coowners |-> <<>>, Premium |-> "", Status |-> "",
     Website |-> "", Github |-> "", Support |-> "", Certificate |-> "",
     Votes |-> NoVotes, Token |-> ""]

\* Bots{}, the zero value.
ZeroBots ==
    [ID |-> "", Name |-> "", Discriminator |-> "", Website |-> "",
     Github |-> "", Avatar |-> "", Tags |-> <<>>, Votes |-> 0,
     Reviews |-> <<>>, Shortdesc |-> "", Staff |-> "", Prefix |-> "",
     Longdesc |-> "", Token |-> "", Support |-> "", OwnerAvatar |-> "",
     OwnerName |-> "", Analytics |-> "", Publicity |-> "",
     Featured |-> FALSE, Approved |-> FALSE, Reviewing |-> FALSE]

\* A check that looks at the primary identifier only.
EssentialEmpty_primaryOnly(doc) ==
    doc.BotID = "" \/ doc.Username = "" \/ doc.Discrim = ""

\* if doc.BotID == "" && doc.AltBotID == "" || doc.Username == "" || doc.Discrim == ""
EssentialEmpty(doc) ==
    (doc.BotID = "" /\ doc.AltBotID = "") \/ doc.Username = "" \/ doc.Discrim = ""

\* A resolution that prefers the alias.
ResolveID_aliasFirst(doc) == IF doc.AltBotID = "" THEN doc.BotID ELSE doc.AltBotID

\* id := doc.BotID; if id == "" { id = doc.AltBotID }
ResolveID(doc) == IF doc.BotID = "" THEN doc.AltBotID ELSE doc.BotID

\* switch v := doc.Votes.(type) { case int: ...; case []interface{}: ... }
ResolveVotes(v) ==
    IF v.t = "int" THEN v.n
    ELSE IF v.t = "[]interface{}"
    THEN (IF Len(v.elems) > 0 /\ v.elems[1].t = "int" THEN v.elems[1].n ELSE 0)
    ELSE 0

\* A transform that copies the source token.
transformDocument_keepToken(doc) ==
    IF EssentialEmpty(doc)
    THEN [ok |-> FALSE, doc |-> ZeroBots]
    ELSE [ok |-> TRUE,
          doc |-> [ZeroBots EXCEPT !.ID = ResolveID(doc),
                                   !.Name = doc.Username,
                                   !.Discriminator = doc.Discrim,
                                   !.Website = doc.Website,
                                   !.Github = doc.Github,
                                   !.Avatar = doc.Avatar,
                                   !.Tags = doc.Tags,
                                   !.Votes = ResolveVotes(doc.Votes),
                                   !.Shortdesc = doc.ShortDesc,
                                   !.Prefix = doc.Prefix,
                                   !.Longdesc = doc.LongDesc,
                                   !.Support = doc.Support,
                                   !.OwnerName = doc.OwnerName,
                                   !.Token = doc.Token,
                                   !.Publicity = "public",
                                   !.Approved = TRUE]]

\* A transform that leaves the destination-only fields at their zero values.
transformDocument_noDefaults(doc) ==
    IF EssentialEmpty(doc)
    THEN [ok |-> FALSE, doc |-> ZeroBots]
    ELSE [ok |-> TRUE,
          doc |-> [ZeroBots EXCEPT !.ID = ResolveID(doc),
                                   !.Name = doc.Username,
                                   !.Discriminator = doc.Discrim,
                                   !.Votes = ResolveVotes(doc.Votes)]]

\* transformDocument: the Bots value and whether err is nil.
transformDocument(doc) ==
    IF EssentialEmpty(doc)
    THEN [ok |-> FALSE, doc |-> ZeroBots]
    ELSE [ok |-> TRUE,
          doc |-> [ID |-> ResolveID(doc),
                   Name |-> doc.Username,
                   Discriminator |-> doc.Discrim,
                   Website |-> doc.Website,
                   Github |-> doc.Github,
                   Avatar |-> doc.Avatar,
                   Tags |-> doc.Tags,
                   Votes |-> ResolveVotes(doc.Votes),
                   Reviews |-> <<>>,
                   Shortdesc |-> doc.ShortDesc,
                   Staff |-> "",
                   Prefix |-> doc.Prefix,
                   Longdesc |-> doc.LongDesc,
                   Token |-> "",
                   Support |-> doc.Support,
                   OwnerAvatar |-> "",
                   OwnerName |-> doc.OwnerName,
                   Analytics |-> "",
                   Publicity |-> "public",
                   Featured |-> FALSE,
                   Approved |-> TRUE,
                   Reviewing |-> FALSE]]

(***************************************************************************)
(* Source documents of a run: one that transforms, one whose username is   *)
(* empty, and one that cur.Decode rejects.                                 *)
(***************************************************************************)
GoodBot ==
    [ZeroOriginalBot EXCEPT !.BotID = "b1", !.Username = "bot", !.Discrim = "0001",
                            !.OwnerID = "o1", !.Token = "secret",
                            !.Votes = Dyn("int32", 7)]

NamelessBot == [GoodBot EXCEPT !.Username = ""]

\* A source document is named by its kind; DocOf is what cur.Decode fills
\* originalDoc with, and Decodes whether it returns nil.
RawKinds == {"undecodable", "good", "nameless"}

Decodes(kind) == kind # "undecodable"

DocOf(kind) ==
    CASE kind = "good" -> GoodBot
      [] kind = "nameless" -> NamelessBot
      [] OTHER -> ZeroOriginalBot

\* As many undecodable documents as leave one free slot in errCh.
Burst == [i \in 1..(ErrChCap - 1) |-> "undecodable"]

(***************************************************************************)
(* cur.Decode(&originalDoc) on a stored document.  The struct tags give    *)
(* the keys: "botID" fills BotID, "BotID" fills AltBotID.  votes is an     *)
(* interface{}: the driver fills it with the Go type of the stored BSON    *)
(* type (int32, int64, float64, string, primitive.A for an array, nil).    *)
(***************************************************************************)
GoType(bsonType) ==
    CASE bsonType = "int32" -> "int32"
      [] bsonType = "int64" -> "int64"
      [] bsonType = "double" -> "float64"
      [] bsonType = "string" -> "string"
      [] bsonType = "array" -> "primitive.A"
      [] OTHER -> "nil"

DecodeValue(b) ==
    [t |-> GoType(b.t),
     n |-> b.n,
     elems |-> [i \in 1..Len(b.elems) |->
                  [t |-> GoType(b.elems[i].t), n |-> b.elems[i].n, elems |-> <<>>]]]

\* The fields transformDocument only copies or drops are all set or all unset.
DecodeBot(st) ==
    LET other == IF st.rich THEN "set" ELSE "" IN
    [ZeroOriginalBot EXCEPT
        !.BotID = st.botID, !.AltBotID = st.BotID,
        !.Username = st.username, !.Discrim = st.discrim,
        !.Votes = DecodeValue(st.votes),
        !.OwnerID = other, !.OwnerName = other, !.Avatar = other,
        !.Prefix = other, !.Invite = other, !.LongDesc = other,
        !.ShortDesc = other, !.Premium = other, !.Status = other,
        !.Website = other, !.Github = other, !.Support = other,
        !.Certificate = other, !.Token = other,
        !.Tags = IF st.rich THEN <<"tag">> ELSE <<>>,
        !.Coowners = IF st.rich THEN <<"co">> ELSE <<>>]

\* The votes values a stored document may carry.
StoredVotes ==
    {Dyn("absent", 0), Dyn("int32", 7), Dyn("int64", 7), Dyn("double", 7),
     Dyn("string", 0), DynList("array", <<>>),
     DynList("array", <<Dyn("int32", 7)>>),
     DynList("array", <<Dyn("int32", 7), Dyn("int32", 9)>>),
     DynList("array", <<Dyn("string", 0)>>),
     DynList("array", <<Dyn("string", 0), Dyn("int32", 7)>>)}

StoredDocs ==
    [botID : {"", "b1"}, BotID : {"", "b2"}, username : {"", "bot"},
     discrim : {"", "0001"}, votes : StoredVotes, rich : BOOLEAN]

(***************************************************************************)
(* Initial states.                                                         *)
(***************************************************************************)
InitBotRun ==
    /\ pcB = "connect"
    /\ ctxExpired = FALSE
    /\ cursorOpenB = FALSE
    /\ curPos = 0
    /\ curErr = FALSE
    /\ errCh = 0
    /\ errChClosed = FALSE
    /\ wg = 0
    /\ processedDocs = 0
    /\ wpc = [i \in 1..Len(botSrc) |-> "none"]
    /\ wdoc = <<>>
    /\ wtmp = [i \in 1..Len(botSrc) |-> 0]
    /\ pcClose = "none"
    /\ pcLog = "none"
    /\ logged = 0
    /\ outcomeB = [i \in 1..Len(botSrc) |-> "none"]
    /\ summary = -1

InitBotCommon ==
    /\ destBots = EmptyBag
    /\ runNo = 1
    /\ firstDest = <<>>
    /\ InitBotRun

\* No relational run in the bot specifications, no bot run in the relational.
RelOff == InitRelCommon /\ SumLen(relSrc) = 0 /\ concurrent = FALSE

BotOff == botSrc = <<>> /\ InitBotCommon

InitBot == botSrc \in SeqsUpTo(RawKinds, MaxDocs) /\ InitBotCommon /\ RelOff

InitBotFlood ==
    /\ botSrc \in {Burst \o t : t \in SeqsUpTo(RawKinds, MaxFloodTail)}
    /\ InitBotCommon
    /\ RelOff

(***************************************************************************)
(* main                                                                    *)
(***************************************************************************)
Alive == pcB \notin {"fatal", "done"}

\* mongo.NewClient, context.WithTimeout, client.Connect: log.Fatalf on error
BotConnect ==
    /\ pcB = "connect"
    /\ pcB' \in {"find", "fatal"}
    /\ UNCHANGED <<botSrc, destBots, runNo, firstDest, ctxExpired, cursorOpenB,
                   curPos, curErr, errCh, errChClosed, wg, processedDocs, wpc,
                   wdoc, wtmp, pcClose, pcLog, logged, outcomeB, summary>>
    /\ UNCHANGED <<relVars, fnVars>>

\* The deadline of ctx passes while the process runs.
DeadlineExpires ==
    /\ pcB \notin {"connect", "fatal", "done"}
    /\ ~ctxExpired
    /\ ctxExpired' = TRUE
    /\ UNCHANGED <<botSrc, destBots, runNo, firstDest, pcB, cursorOpenB, curPos,
                   curErr, errCh, errChClosed, wg, processedDocs, wpc, wdoc,
                   wtmp, pcClose, pcLog, logged, outcomeB, summary>>
    /\ UNCHANGED <<relVars, fnVars>>

\* cur, err := originalCollection.Find(ctx, filter); log.Fatal on error
BotFind ==
    /\ pcB = "find"
    /\ \/ pcB' = "fatal" /\ UNCHANGED cursorOpenB
       \/ ~ctxExpired /\ pcB' = "loop" /\ cursorOpenB' = TRUE
    /\ UNCHANGED <<botSrc, destBots, runNo, firstDest, ctxExpired, curPos, curErr,
                   errCh, errChClosed, wg, processedDocs, wpc, wdoc, wtmp,
                   pcClose, pcLog, logged, outcomeB, summary>>
    /\ UNCHANGED <<relVars, fnVars>>

\* for cur.Next(ctx) { cur.Decode(&originalDoc); ...; wg.Add(1); go func(...) }
\* A document of the batch already fetched is yielded whatever ctx says; a
\* fetch under an expired ctx fails.
BotNext ==
    /\ pcB = "loop"
    /\ \/ /\ curPos < Len(botSrc)
          /\ curPos' = curPos + 1
          /\ IF Decodes(botSrc[curPos + 1])
             THEN /\ wg' = wg + 1
                  /\ wpc' = [wpc EXCEPT ![curPos + 1] = "transform"]
                  /\ pcB' = pcB
             ELSE /\ pcB' = "sendDecodeErr"
                  /\ UNCHANGED <<wg, wpc>>
          /\ UNCHANGED curErr
       \/ /\ curPos = Len(botSrc)
          /\ pcB' = "afterLoop"
          /\ UNCHANGED <<curPos, curErr, wg, wpc>>
       \/ /\ curPos < Len(botSrc)
          /\ ctxExpired
          /\ curErr' = TRUE
          /\ pcB' = "afterLoop"
          /\ UNCHANGED <<curPos, wg, wpc>>
    /\ UNCHANGED <<botSrc, destBots, runNo, firstDest, ctxExpired, cursorOpenB,
                   errCh, errChClosed, processedDocs, wdoc, wtmp, pcClose, pcLog,
                   logged, outcomeB, summary>>
    /\ UNCHANGED <<relVars, fnVars>>

\* A send on errCh proceeds when the buffer has room (no goroutine receives
\* before the loop has ended, and the receiver takes from the buffer).
CanSend == errCh < ErrChCap

\* errCh <- fmt.Errorf("error decoding document: %v", err); continue
BotSendDecodeErr ==
    /\ pcB = "sendDecodeErr"
    /\ CanSend
    /\ errCh' = errCh + 1
    /\ outcomeB' = [outcomeB EXCEPT ![curPos] = "decodeErr"]
    /\ pcB' = "loop"
    /\ UNCHANGED <<botSrc, destBots, runNo, firstDest, ctxExpired, cursorOpenB,
                   curPos, curErr, errChClosed, wg, processedDocs, wpc, wdoc,
                   wtmp, pcClose, pcLog, logged, summary>>
    /\ UNCHANGED <<relVars, fnVars>>

\* go func() { wg.Wait(); close(errCh) }(); go func() { for err := range errCh ... }()
BotAfterLoop ==
    /\ pcB = "afterLoop"
    /\ pcClose' = "wait"
    /\ pcLog' = "range"
    /\ pcB' = "waitDone"
    /\ UNCHANGED <<botSrc, destBots, runNo, firstDest, ctxExpired, cursorOpenB,
                   curPos, curErr, errCh, errChClosed, wg, processedDocs, wpc,
                   wdoc, wtmp, logged, outcomeB, summary>>
    /\ UNCHANGED <<relVars, fnVars>>

\* A closer that does not wait for the workers.
CloserClose_noWait ==
    /\ Alive
    /\ pcClose = "wait"
    /\ errChClosed' = TRUE
    /\ pcClose' = "done"
    /\ UNCHANGED <<botSrc, destBots, runNo, firstDest, pcB, ctxExpired,
                   cursorOpenB, curPos, curErr, errCh, wg, processedDocs, wpc,
                   wdoc, wtmp, pcLog, logged, outcomeB, summary>>
    /\ UNCHANGED <<relVars, fnVars>>

\* wg.Wait(); close(errCh)
CloserClose ==
    /\ Alive
    /\ pcClose = "wait"
    /\ wg = 0
    /\ errChClosed' = TRUE
    /\ pcClose' = "done"
    /\ UNCHANGED <<botSrc, destBots, runNo, firstDest, pcB, ctxExpired,
                   cursorOpenB, curPos, curErr, errCh, wg, processedDocs, wpc,
                   wdoc, wtmp, pcLog, logged, outcomeB, summary>>
    /\ UNCHANGED <<relVars, fnVars>>

\* for err := range errCh { log.Println(err) }
LoggerReceive ==
    /\ Alive
    /\ pcLog = "range"
    /\ errCh > 0
    /\ logged' = logged + 1
    /\ errCh' = errCh - 1
    /\ UNCHANGED <<botSrc, destBots, runNo, firstDest, pcB, ctxExpired,
                   cursorOpenB, curPos, curErr, errChClosed, wg, processedDocs,
                   wpc, wdoc, wtmp, pcClose, pcLog, outcomeB, summary>>
    /\ UNCHANGED <<relVars, fnVars>>

\* A range that ends as soon as errCh is empty, closed or not.
LoggerEnd_noClose ==
    /\ Alive
    /\ pcLog = "range"
    /\ errCh = 0
    /\ pcLog' = "signal"
    /\ UNCHANGED <<botSrc, destBots, runNo, firstDest, pcB, ctxExpired,
                   cursorOpenB, curPos, curErr, errCh, errChClosed, wg,
                   processedDocs, wpc, wdoc, wtmp, pcClose, logged, outcomeB,
                   summary>>
    /\ UNCHANGED <<relVars, fnVars>>

\* the range ends once errCh is closed and drained
LoggerEnd ==
    /\ Alive
    /\ pcLog = "range"
    /\ errCh = 0
    /\ errChClosed
    /\ pcLog' = "signal"
    /\ UNCHANGED <<botSrc, destBots, runNo, firstDest, pcB, ctxExpired,
                   cursorOpenB, curPos, curErr, errCh, errChClosed, wg,
                   processedDocs, wpc, wdoc, wtmp, pcClose, logged, outcomeB,
                   summary>>
    /\ UNCHANGED <<relVars, fnVars>>

\* doneCh <- struct{}{} meets <-doneCh (doneCh is unbuffered)
DoneSignal ==
    /\ pcLog = "signal"
    /\ pcB = "waitDone"
    /\ pcLog' = "done"
    /\ pcB' = "checkErr"
    /\ UNCHANGED <<botSrc, destBots, runNo, firstDest, ctxExpired, cursorOpenB,
                   curPos, curErr, errCh, errChClosed, wg, processedDocs, wpc,
                   wdoc, wtmp, pcClose, logged, outcomeB, summary>>
    /\ UNCHANGED <<relVars, fnVars>>

\* if err := cur.Err(); err != nil { log.Fatal(err) }; log.Printf("Conversion
\* done. Processed %d documents ..."); main returns and its defers run.
\* log.Fatal ends the process by os.Exit: no deferred call runs.
BotFinish ==
    /\ pcB = "checkErr"
    /\ IF curErr
       THEN pcB' = "fatal" /\ UNCHANGED <<summary, cursorOpenB>>
       ELSE pcB' = "done" /\ summary' = processedDocs /\ cursorOpenB' = FALSE
    /\ UNCHANGED <<botSrc, destBots, runNo, firstDest, ctxExpired, curPos, curErr,
                   errCh, errChClosed, wg, processedDocs, wpc, wdoc, wtmp,
                   pcClose, pcLog, logged, outcomeB>>
    /\ UNCHANGED <<relVars, fnVars>>

(***************************************************************************)
(* The goroutine of document i.                                            *)
(***************************************************************************)
\* A worker that inserts whatever transformDocument returned.
WorkerTransform_noCheck(i) ==
    /\ Alive
    /\ wpc[i] = "transform"
    /\ wpc' = [wpc EXCEPT ![i] = "insert"]
    /\ wdoc' = (i :> transformDocument(DocOf(botSrc[i])).doc) @@ wdoc
    /\ UNCHANGED <<botSrc, destBots, runNo, firstDest, pcB, ctxExpired,
                   cursorOpenB, curPos, curErr, errCh, errChClosed, wg,
                   processedDocs, wtmp, pcClose, pcLog, logged, outcomeB, summary>>
    /\ UNCHANGED <<relVars, fnVars>>

\* transformedDoc, err := transformDocument(originalDoc)
WorkerTransform(i) ==
    /\ Alive
    /\ wpc[i] = "transform"
    /\ LET res == transformDocument(DocOf(botSrc[i])) IN
       IF res.ok
       THEN wpc' = [wpc EXCEPT ![i] = "insert"] /\ wdoc' = (i :> res.doc) @@ wdoc
       ELSE wpc' = [wpc EXCEPT ![i] = "sendTransformErr"] /\ wdoc' = wdoc
    /\ UNCHANGED <<botSrc, destBots, runNo, firstDest, pcB, ctxExpired,
                   cursorOpenB, curPos, curErr, errCh, errChClosed, wg,
                   processedDocs, wtmp, pcClose, pcLog, logged, outcomeB, summary>>
    /\ UNCHANGED <<relVars, fnVars>>

\* errCh <- fmt.Errorf(...); log.Printf(...); return  (deferred wg.Done)
WorkerSendErr(i) ==
    /\ Alive
    /\ wpc[i] \in {"sendTransformErr", "sendInsertErr"}
    /\ CanSend
    /\ errCh' = errCh + 1
    /\ outcomeB' = [outcomeB EXCEPT ![i] =
                       IF wpc[i] = "sendTransformErr" THEN "transformErr" ELSE "insertErr"]
    /\ wg' = wg - 1
    /\ wpc' = [wpc EXCEPT ![i] = "done"]
    /\ UNCHANGED <<botSrc, destBots, runNo, firstDest, pcB, ctxExpired,
                   cursorOpenB, curPos, curErr, errChClosed, processedDocs, wdoc,
                   wtmp, pcClose, pcLog, logged, summary>>
    /\ UNCHANGED <<relVars, fnVars>>

\* _, err = transformedCollection.InsertOne(ctx, transformedDoc)
\* The document has no _id field, so the server gives every insert a fresh
\* one: nothing makes a second copy of a document collide with the first.
\* ctx is the context of the whole run: past its deadline InsertOne fails.
WorkerInsertOK(i) ==
    /\ Alive
    /\ wpc[i] = "insert"
    /\ ~ctxExpired
    /\ destBots' = destBots (+) SetToBag({wdoc[i]})
    /\ wpc' = [wpc EXCEPT ![i] = "load"]
    /\ UNCHANGED <<botSrc, runNo, firstDest, pcB, ctxExpired, cursorOpenB, curPos,
                   curErr, errCh, errChClosed, wg, processedDocs, wdoc, wtmp,
                   pcClose, pcLog, logged, outcomeB, summary>>
    /\ UNCHANGED <<relVars, fnVars>>

\* if err != nil { errCh <- ...; return }
WorkerInsertFail(i) ==
    /\ Alive
    /\ wpc[i] = "insert"
    /\ wpc' = [wpc EXCEPT ![i] = "sendInsertErr"]
    /\ UNCHANGED <<botSrc, destBots, runNo, firstDest, pcB, ctxExpired,
                   cursorOpenB, curPos, curErr, errCh, errChClosed, wg,
                   processedDocs, wdoc, wtmp, pcClose, pcLog, logged, outcomeB,
                   summary>>
    /\ UNCHANGED <<relVars, fnVars>>

WorkerInsert(i) == WorkerInsertOK(i) \/ WorkerInsertFail(i)

\* processedDocs++ is a load and a store of a plain int, with no lock.
WorkerLoad(i) ==
    /\ Alive
    /\ wpc[i] = "load"
    /\ wtmp' = [wtmp EXCEPT ![i] = processedDocs]
    /\ wpc' = [wpc EXCEPT ![i] = "store"]
    /\ UNCHANGED <<botSrc, destBots, runNo, firstDest, pcB, ctxExpired,
                   cursorOpenB, curPos, curErr, errCh, errChClosed, wg,
                   processedDocs, wdoc, pcClose, pcLog, logged, outcomeB, summary>>
    /\ UNCHANGED <<relVars, fnVars>>

\* the goroutine returns: its copy of the counter is gone
WorkerStore(i) ==
    /\ Alive
    /\ wpc[i] = "store"
    /\ processedDocs' = wtmp[i] + 1
    /\ wtmp' = [wtmp EXCEPT ![i] = 0]
    /\ outcomeB' = [outcomeB EXCEPT ![i] = "inserted"]
    /\ wg' = wg - 1
    /\ wpc' = [wpc EXCEPT ![i] = "done"]
    /\ UNCHANGED <<botSrc, destBots, runNo, firstDest, pcB, ctxExpired,
                   cursorOpenB, curPos, curErr, errCh, errChClosed, wdoc,
                   pcClose, pcLog, logged, summary>>
    /\ UNCHANGED <<relVars, fnVars>>

\* The program is started again on the same source and destination.
BotRerun ==
    /\ pcB \in {"done", "fatal"}
    /\ runNo < MaxRuns
    /\ runNo' = runNo + 1
    /\ firstDest' = IF runNo = 1 /\ pcB = "done"
                    THEN <<[dest |-> destBots, errors |-> logged]>>
                    ELSE <<>>
    /\ pcB' = "connect"
    /\ ctxExpired' = FALSE
    /\ cursorOpenB' = FALSE
    /\ curPos' = 0
    /\ curErr' = FALSE
    /\ errCh' = 0
    /\ errChClosed' = FALSE
    /\ wg' = 0
    /\ processedDocs' = 0
    /\ wpc' = [i \in 1..Len(botSrc) |-> "none"]
    /\ wdoc' = <<>>
    /\ wtmp' = [i \in 1..Len(botSrc) |-> 0]
    /\ pcClose' = "none"
    /\ pcLog' = "none"
    /\ logged' = 0
    /\ outcomeB' = [i \in 1..Len(botSrc) |-> "none"]
    /\ summary' = -1
    /\ UNCHANGED <<botSrc, destBots>>
    /\ UNCHANGED <<relVars, fnVars>>

\* One step of the goroutine of document i.
WorkerStep(i) ==
    \/ WorkerTransform(i)
    \/ WorkerSendErr(i)
    \/ WorkerInsert(i)
    \/ WorkerLoad(i)
    \/ WorkerStore(i)

\* One step of a goroutine of the conversion.
BotStep ==
    \/ BotConnect
    \/ BotFind
    \/ BotNext
    \/ BotSendDecodeErr
    \/ BotAfterLoop
    \/ CloserClose
    \/ LoggerReceive
    \/ LoggerEnd
    \/ DoneSignal
    \/ BotFinish
    \/ \E i \in 1..Len(botSrc) :
          \/ WorkerTransform(i)
          \/ WorkerSendErr(i)
          \/ WorkerInsert(i)
          \/ WorkerLoad(i)
          \/ WorkerStore(i)

NextBot ==
    \/ BotConnect
    \/ DeadlineExpires
    \/ BotFind
    \/ BotNext
    \/ BotSendDecodeErr
    \/ BotAfterLoop
    \/ CloserClose
    \/ LoggerReceive
    \/ LoggerEnd
    \/ DoneSignal
    \/ BotFinish
    \/ BotRerun
    \/ \E i \in 1..Len(botSrc) : WorkerTransform(i)
    \/ \E i \in 1..Len(botSrc) : WorkerSendErr(i)
    \/ \E i \in 1..Len(botSrc) : WorkerInsert(i)
    \/ \E i \in 1..Len(botSrc) : WorkerLoad(i)
    \/ \E i \in 1..Len(botSrc) : WorkerStore(i)

NextRel ==
    \/ \E p \in Procs : RelStart(p)
    \/ \E p \in Procs : CollectionFind(p)
    \/ \E p \in Procs : CursorNext(p)
    \/ \E p \in Procs : ExistenceCheck(p)
    \/ \E p \in Procs : InsertRow(p)
    \/ \E p \in Procs : TransferReturn(p)

\* No stored document under examination.
FnOff == stored = <<>> /\ fnOut = <<>>

InitRel == InitRelSeq /\ BotOff /\ FnOff

InitRel2 == InitRelConc /\ BotOff /\ FnOff

InitBotSpec == InitBot /\ FnOff

InitBotFloodSpec == InitBotFlood /\ FnOff

\* One stored document, decoded and handed to transformDocument.
InitFn == stored \in StoredDocs /\ fnOut = <<>> /\ BotOff /\ RelOff

\* err := cur.Decode(&originalDoc); transformDocument(originalDoc)
TransformApply ==
    /\ fnOut = <<>>
    /\ fnOut' = <<transformDocument(DecodeBot(stored))>>
    /\ UNCHANGED <<stored, relVars, botVars>>

NextFn == TransformApply

SpecRel == InitRel /\ [][NextRel]_vars

SpecRel2 == InitRel2 /\ [][NextRel]_vars

SpecBot == InitBotSpec /\ [][NextBot]_vars

\* One run in which the deadline does not pass.
SpecBotFlood == InitBotFloodSpec /\ [][BotStep]_vars

SpecFn == InitFn /\ [][NextFn]_vars

(***************************************************************************)
(*                              Properties                                 *)
(***************************************************************************)
Cols == 1..NumCollections

Docs(c) == 1..Len(relSrc[c])

\* Run p has left the transfer of collection c behind.
TransferOver(p, c) == pcT[p] = "finished" \/ col[p] > c

\* Every document after i of collection c got an outcome in run p.
LaterProcessed(p, c, i) == \A j \in Docs(c) : j > i => outcomeR[p][c][j] # "none"

\* Goroutines of documents that are running.
InFlight == Cardinality({i \in 1..Len(botSrc) : wpc[i] \notin {"none", "done"}})

Inserted == {i \in 1..Len(botSrc) : outcomeB[i] = "inserted"}

\* C1: at the end of a run every record the source held has a recorded
\* outcome.  For a relational run with no store failure: every document of
\* every collection was written, skipped or reported; for the bot conversion:
\* the errors printed and the processed count add up to the source's size.
C1_EveryRecordHasOutcome ==
    /\ \A p \in Procs :
          (pcT[p] = "finished" /\ faults = 0) =>
              \A c \in Cols : \A i \in Docs(c) : outcomeR[p][c][i] # "none"
    /\ pcB = "done" => logged + summary = Len(botSrc)

\* C2: the bot conversion never blocks for good: as long as the process has
\* not ended, one of its goroutines can take a step.
C2_RunNeverBlocks == Alive => ENABLED BotStep

\* C3: the count the summary prints is the number of documents whose insert
\* succeeded.
C3_CountEqualsInserted == pcB = "done" => summary = Cardinality(Inserted)

\* C4: the workers in flight stay below a limit K smaller than the source
\* (K = MaxDocs - 1 for the largest sources of the model).
C4_ConcurrencyBound == InFlight <= MaxDocs - 1

\* C5: once a transfer is over, every document that followed a document
\* which failed to decode has been processed.
C5_DecodeErrorContinues ==
    \A p \in Procs : \A c \in Cols : \A i \in Docs(c) :
        (TransferOver(p, c) /\ outcomeR[p][c][i] = "decodeErr") => LaterProcessed(p, c, i)

\* C6: once a transfer is over, every document that followed a document
\* whose INSERT was rejected has been processed.
C6_WriteErrorContinues ==
    \A p \in Procs : \A c \in Cols : \A i \in Docs(c) :
        (TransferOver(p, c) /\ outcomeR[p][c][i] = "writeErr") => LaterProcessed(p, c, i)

\* C7: a document whose existence lookup failed had no INSERT sent for it,
\* and once its transfer is over every document after it has been processed.
C7_CheckErrorContinues ==
    \A p \in Procs : \A c \in Cols : \A i \in Docs(c) :
        outcomeR[p][c][i] = "checkErr" =>
            /\ i \notin issued[p][c]
            /\ TransferOver(p, c) => LaterProcessed(p, c, i)

\* C8: a run that follows a complete first run in which no document failed
\* (so every document of the source was migrated) adds nothing to the
\* destination.
C8_SecondRunAddsNothing ==
    (runNo = 2 /\ firstDest # <<>> /\ firstDest[1].errors = 0) =>
        destBots = firstDest[1].dest

\* C9: no INSERT is about to be sent for a document whose natural key the
\* destination table already holds (runs one after the other: nothing changes
\* the table between the existence check and the INSERT).
C9_ExistingKeyNotInserted ==
    \A p \in Procs :
        pcT[p] = "insert" => table[col[p]][StoredKey(col[p], CurRec(p))] = 0

\* Both runs have sent the INSERT for a document of collection c with stored
\* key v, and both statements have been answered.
BothInserted(c, v) ==
    \A p \in Procs : \E i \in issued[p][c] :
        /\ StoredKey(c, relSrc[c][i]) = v
        /\ outcomeR[p][c][i] # "none"

\* C10 as stated: when two overlapping runs have both passed the existence
\* check for one key and both INSERTs have run with no store failure, the
\* table holds two rows with that key.
C10_DoubleInsert ==
    \A c \in Cols : \A v \in StoredVals(c) :
        (BothInserted(c, v) /\ faults = 0) => table[c][v] = 2

\* C10 amended: overlapping runs can both pass the check and both send the
\* INSERT, but no table ever holds two rows with one natural key.
C10_NoDuplicateKey == \A c \in Cols : \A v \in StoredVals(c) : table[c][v] <= 1

\* C10 witness: both runs sent the INSERT for one key, one row is stored and
\* the other run's INSERT was rejected.
C10_SecondInsertRejected ==
    \E c \in Cols : \E v \in StoredVals(c) :
        /\ BothInserted(c, v)
        /\ faults = 0
        /\ table[c][v] = 1
        /\ \E p \in Procs : \E i \in issued[p][c] :
              StoredKey(c, relSrc[c][i]) = v /\ outcomeR[p][c][i] = "writeErr"

Workers == 1..Len(botSrc)

Running(i) == wpc[i] \notin {"none", "done"}

Failed(i) == outcomeB[i] \in {"transformErr", "insertErr"}

\* C11: the process ends abnormally only at startup: no run of either
\* program goes to log.Fatal once its source cursor has been opened.
C11_FatalOnlyAtStartup ==
    [][/\ (pcB' = "fatal" /\ pcB # "fatal") => ~cursorOpenB
       /\ \A p \in Procs : (pcT'[p] = "fatal" /\ pcT[p] # "fatal") => pcT[p] = "idle"]_vars

\* C12: a worker that is about to write when the deadline has passed can
\* still complete its write.
C12_InFlightWriteSucceeds ==
    \A i \in Workers : (ctxExpired /\ wpc[i] = "insert") => ENABLED WorkerInsertOK(i)

\* C13: when a run of the conversion has ended, and when a collection
\* transfer has returned, its cursor is closed.
C13_CursorReleased ==
    /\ pcB \in {"done", "fatal"} => ~cursorOpenB
    /\ \A p \in Procs : pcT[p] \in {"find", "finished", "fatal"} => ~cursorOpen[p]

\* C14: after a worker has ended with a transform or insert error, no
\* other worker in flight is left stuck: some goroutine of the run can
\* still take a step (the run has finitely many steps, so a worker stays
\* in flight for ever exactly when the run stops with it in flight).
C14_SiblingsRunOn ==
    \A i \in Workers :
        (Running(i) /\ \E j \in Workers \ {i} : Failed(j)) => ENABLED BotStep

(***************************************************************************)
(* transformDocument on one stored document (SpecFn).                      *)
(***************************************************************************)
Applied == fnOut # <<>>

Succeeded == Applied /\ fnOut[1].ok

Out == fnOut[1].doc

\* Every required field has a non-empty value under one of its keys.
RequiredPresent ==
    /\ stored.botID # "" \/ stored.BotID # ""
    /\ stored.username # ""
    /\ stored.discrim # ""

\* C15: transformDocument returns an error exactly when botID and BotID are
\* both empty, or username is empty, or discrim is empty; and when it
\* succeeds the output's ID, Name and Discriminator are non-empty.
C15_SucceedsIffRequiredPresent ==
    Applied =>
        /\ fnOut[1].ok <=> RequiredPresent
        /\ fnOut[1].ok => Out.ID # "" /\ Out.Name # "" /\ Out.Discriminator # ""

\* C15 witness: a document with only the alias of the identifier set was
\* transformed without error.
C15_AliasOnlySucceeds ==
    Succeeded /\ stored.botID = "" /\ stored.BotID # ""

\* C16: on success the output ID is botID when that is non-empty, whatever
\* BotID holds, and BotID when botID is empty.
C16_PrimaryThenAlias ==
    Succeeded => Out.ID = (IF stored.botID # "" THEN stored.botID ELSE stored.BotID)

\* C16 witness: both keys were set to different values and the primary won.
C16_BothSetPrimaryWins ==
    /\ Succeeded
    /\ stored.botID # "" /\ stored.BotID # "" /\ stored.botID # stored.BotID
    /\ Out.ID = stored.botID

IsNumber(b) == b.t \in {"int32", "int64", "double"}

\* The votes value the claim describes for a stored votes value.
ExpectedVotes(b) ==
    IF IsNumber(b) THEN b.n
    ELSE IF b.t = "array" /\ Len(b.elems) > 0 /\ IsNumber(b.elems[1]) THEN b.elems[1].n
    ELSE 0

\* C17: the output's votes is the stored number when votes is a number, the
\* first element when votes is a non-empty list that starts with a number,
\* and 0 otherwise; resolving votes never makes the transform fail.
C17_VotesResolved ==
    Applied =>
        /\ fnOut[1].ok <=> RequiredPresent
        /\ fnOut[1].ok => Out.Votes = ExpectedVotes(stored.votes)

\* C18: on success the destination-only fields hold their fixed defaults.
C18_FixedDefaults ==
    Succeeded =>
        /\ Out.Reviews = <<>>
        /\ Out.OwnerAvatar = "" /\ Out.Analytics = "" /\ Out.Staff = ""
        /\ Out.Publicity = "public"
        /\ Out.Approved = TRUE /\ Out.Reviewing = FALSE /\ Out.Featured = FALSE

\* C18 witness: a document with every source field set was transformed.
C18_RichDocumentTransformed == Succeeded /\ stored.rich /\ Out.OwnerName # ""

(***************************************************************************)
(* The end of a run of the conversion (SpecBot).                           *)
(***************************************************************************)
\* C19: when the summary has been printed the cursor was read to its end,
\* every goroutine started for a document has returned, and every error
\* sent to errCh has been printed.
C19_SummaryAfterDraining ==
    summary # -1 =>
        /\ curPos = Len(botSrc) /\ ~curErr
        /\ \A i \in Workers : ~Running(i)
        /\ \A i \in Workers : outcomeB[i] # "none"
        /\ wg = 0
        /\ errCh = 0 /\ errChClosed
        /\ logged = Cardinality({i \in Workers : outcomeB[i] \notin {"none", "inserted"}})

\* C19 witness: a summary printed after a run with an insert and an error.
C19_SummaryWithErrorAndInsert ==
    /\ summary # -1
    /\ logged > 0
    /\ \E i \in Workers : outcomeB[i] = "inserted"

\* Documents of the source whose insert has succeeded in this run.
Written == {i \in Workers : wpc[i] \in {"load", "store"} \/ outcomeB[i] = "inserted"}

\* InsertOne has been or is about to be called for document i.
InsertAttempted(i) ==
    \/ wpc[i] \in {"insert", "sendInsertErr", "load", "store"}
    \/ outcomeB[i] \in {"insertErr", "inserted"}

\* C20: an insert is attempted only for a document whose required fields are
\* present; every document in the destination has non-empty ID, Name and
\* Discriminator; and in a first run the destination holds exactly one
\* document per successful insert, none for a failed transform.
C20_AllOrNothing ==
    /\ \A i \in Workers : InsertAttempted(i) => botSrc[i] = "good"
    /\ \A d \in BagToSet(destBots) : d.ID # "" /\ d.Name # "" /\ d.Discriminator # ""
    /\ runNo = 1 => BagCardinality(destBots) = Cardinality(Written)

\* C20 witness: one document failed its transform, another was inserted.
C20_OneFailedOneInserted ==
    /\ \E i \in Workers : outcomeB[i] = "transformErr"
    /\ \E j \in Workers : outcomeB[j] = "inserted"
    /\ BagCardinality(destBots) = Cardinality(Written)
    /\ runNo = 1

(***************************************************************************)
(* errCh, transferData's loop, and the fields transformDocument drops.     *)
(***************************************************************************)
\* main is still in, or has yet to enter, the reader loop.
ReaderBusy == pcB \in {"connect", "find", "loop", "sendDecodeErr", "afterLoop"}

\* C21: errCh is closed by the closer goroutine alone, once; and while it is
\* closed nothing can send on it: the reader loop is over and every worker
\* has returned.
C21_NoSendAfterClose ==
    /\ errChClosed <=> pcClose = "done"
    /\ errChClosed =>
          /\ ~ReaderBusy
          /\ \A i \in Workers : ~Running(i)
          /\ wg = 0

\* C21 witness: errCh was closed after the reader and a worker had each
\* sent an error on it.
C21_ClosedAfterSends ==
    /\ errChClosed
    /\ \E i \in Workers : outcomeB[i] = "decodeErr"
    /\ \E j \in Workers : Failed(j)

\* The order transferData is written to follow.
TransferOrder == <<"partners", "blogposts", "users", "coterie", "posts">>

\* C22: a run's transfers are logged in the order partners, blogposts,
\* users, coterie, posts, one entry per collection; the run is at the
\* collection after the last one logged, whatever the logged results; a
\* run that has started its transfers never ends in log.Fatalf, and when
\* transferData has returned all five were attempted.
C22_AllCollectionsInOrder ==
    \A p \in Procs :
        /\ Len(logT[p]) <= Len(TransferOrder)
        /\ \A k \in 1..Len(logT[p]) : collections[logT[p][k][1]] = TransferOrder[k]
        /\ pcT[p] \in {"find", "next", "check", "insert", "return"} =>
               col[p] = Len(logT[p]) + 1
        /\ pcT[p] = "finished" => Len(logT[p]) = Len(TransferOrder)
        /\ pcT[p] = "fatal" => logT[p] = <<>>

\* C22 witness: transferData has returned after a run in which the first
\* collection's transfer failed.
C22_FailedFirstThenRest ==
    \E p \in Procs :
        /\ pcT[p] = "finished"
        /\ logT[p][1][2] = TRUE
        /\ Len(logT[p]) = Len(TransferOrder)

\* Decoded documents that differ from doc only in the fields
\* transformDocument does not read.
UnmappedVariants(doc) ==
    {[doc EXCEPT !.Token = f.Token, !.OwnerID = f.OwnerID,
                 !.Uptimerate = f.Uptimerate, !.Coowners = f.Coowners,
                 !.Premium = f.Premium, !.Status = f.Status,
                 !.Invite = f.Invite, !.Certificate = f.Certificate] :
        f \in [Token : {"", "set", "secret"}, OwnerID : {"", "o1"},
               Uptimerate : {0, 99}, Coowners : {<<>>, <<"co">>},
               Premium : {"", "yes"}, Status : {"", "online"},
               Invite : {"", "link"}, Certificate : {"", "cert"}]}

\* C23: the result of transformDocument is the same for every document that
\* differs from the transformed one only in Token, OwnerID, Uptimerate,
\* Coowners, Premium, Status, Invite or Certificate, and the output Token is
\* the empty string.
C23_TokenNeverCopied ==
    Applied =>
        /\ \A v \in UnmappedVariants(DecodeBot(stored)) : transformDocument(v) = fnOut[1]
        /\ Out.Token = ""

\* C23 witness: a document that carries a token was transformed.
C23_TokenDropped ==
    Succeeded /\ DecodeBot(stored).Token # "" /\ Out.Token = ""

====
